---- MODULE Spec2Model ----
(***************************************************************************)
(* lucida-downloader: the two-level worker pool (album workers draining    *)
(* the shared URL queue, per-album track workers draining the album's      *)
(* track queue) and the per-track submit -> poll -> fetch protocol with    *)
(* its retry loops, stuck detection and cooperative cancellation.          *)
(*                                                                         *)
(* The runtime is tokio's current_thread flavour (main.rs:18): a task runs *)
(* without interruption from one .await to the next, so one action is the  *)
(* code between two suspension points of one task.  The head of each       *)
(* worker loop is an action of its own (pc "loop"); nothing is read or     *)
(* written between the end of the previous iteration and the head.         *)
(***************************************************************************)
EXTENDS Integers, Sequences, FiniteSets, TLC

(* ---- bounds of the model ---------------------------------------------- *)
\* The size of a run is the number of queued URLs, plus the number of track
\* workers the configuration lets run side by side, plus the number of times
\* the remote service misbehaves; runs of every size up to MaxScope are
\* explored.
MaxScope == 5

(* ---- constants of the program ----------------------------------------- *)
StuckSecs == 30
PollSleep == 1
RetrySleep == 5

VARIABLES
    cfg,       \* the worker counts and skip switches of the command line (Cli)
    cli_urls,  \* the URLs given, in the order given
    urls,      \* main's shared queue of URLs (reversed, popped from the end)
    running,   \* the flag the ctrl-c task clears
    main,      \* where main is: "joining", "finished" or "panicked"
    aw,        \* album worker -> its position, album and track queue
    tw,        \* (album worker, track worker) -> its position and the locals
               \* of download_track
    files,     \* file created under the output directory -> its content, named
               \* by the queue position of the album it was downloaded for
    pops,      \* item ever queued -> the number of times a pop returned it
    called,    \* the tracks a request of the track protocol was sent for
    faults     \* the number of times the remote service has misbehaved

vars == <<cfg, cli_urls, urls, running, main, aw, tw, files, pops, called, faults>>

(* ---- the remote catalogue: what a URL resolves to ---------------------- *)
Urls == {"a", "b"}

\* the album of the three-track scenario: its second track has no producers
ScenarioUrl == "c"

\* PageData of a URL: Info::Album with its tracks in order, or Info::Track.
\* A track is its producers field: TRUE for Some(..), FALSE for None.
PageData(url) ==
    CASE url = "a" ->
           [info |-> "album", original_service |-> "qobuz", tracks |-> <<TRUE, FALSE>>]
      [] url = ScenarioUrl ->
           [info |-> "album", original_service |-> "qobuz", tracks |-> <<TRUE, FALSE, TRUE>>]
      [] OTHER ->
           [info |-> "track", original_service |-> "tidal", tracks |-> <<FALSE>>]

NoNumber == 0

\* no handle is bound; the handle a submit call returns is named by the
\* number of that call, so every submit call returns a handle of its own
NoHandle == 0

Min(x, y) == IF x <= y THEN x ELSE y

RECURSIVE Reverse(_)
Reverse(s) == IF s = <<>> THEN <<>> ELSE Append(Reverse(Tail(s)), Head(s))

Last(s) == s[Len(s)]
Front(s) == SubSeq(s, 1, Len(s) - 1)

Max(x, y) == IF x >= y THEN x ELSE y

TrackCounts == {Len(PageData(u).tracks) : u \in Urls \cup {ScenarioUrl}}
MaxTracks == CHOOSE n \in TrackCounts : \A m \in TrackCounts : m <= n

UrlLists == UNION {[1..n -> Urls] : n \in 1..(MaxScope - 1)}

Configs ==
    [album_workers : 0..MaxScope, track_workers : 0..MaxScope,
     skip_tracks : BOOLEAN, skip_cover : BOOLEAN]

\* the number of track workers a configuration lets run side by side
Concurrency(c) == c.album_workers * Max(c.track_workers, 1)

\* no more album workers are spawned than there are URLs, no more track
\* workers than an album has tracks
AW == 1..(MaxScope \div 2)
TW == 1..MaxTracks
TWid == AW \X TW

\* a track queue left in the order of the page
MutTrackQueue(page) ==
    IF page.info = "album"
    THEN [i \in 1..Len(page.tracks) |-> [num |-> i, producers |-> page.tracks[i]]]
    ELSE <<[num |-> NoNumber, producers |-> page.tracks[1]]>>

\* the (ordinal, Track) queue built from the resolved page
TrackQueue(page) ==
    IF page.info = "album"
    THEN Reverse([i \in 1..Len(page.tracks) |-> [num |-> i, producers |-> page.tracks[i]]])
    ELSE <<[num |-> NoNumber, producers |-> page.tracks[1]]>>

(* ---- (status, message) pairs of a poll response ------------------------ *)
PendingPairs == {<<"processing", "m1">>, <<"processing", "m2">>}
Completed == <<"completed", "m1">>
NoStatus == <<"none", "none">>

\* a response arrives at once, or so late that the next status check falls
\* just short of, or exactly on, the stuck threshold
Latencies == {0, StuckSecs - PollSleep - 1, StuckSecs - PollSleep}
ElapsedCap == StuckSecs + 1

\* the items of the two kinds of queue: the URL at a position of main's
\* queue, and a track of the album popped from that position
AlbumItem(i) == <<"album", i, NoNumber>>
TrackItem(i, num) == <<"track", i, num>>

IdleAlbumWorker ==
    [pc |-> "idle", idx |-> 0, url |-> "none", tracks |-> <<>>, spawned |-> 0,
     resp |-> "none", hot |-> FALSE, cause |-> "none"]

IdleTrackWorker ==
    [pc |-> "idle", num |-> NoNumber, out |-> "none", track_download |-> NoHandle,
     last_status |-> NoStatus, elapsed |-> 0, submits |-> 0, delays |-> 0,
     restart |-> "none", retry |-> "none", resp |-> "none", seen |-> NoStatus,
     hot |-> FALSE, cause |-> "none"]

\* an album worker for every URL, whatever the configuration
MutAlbumWorkerCount(urls_len) == urls_len

\* the number of album workers main spawns
AlbumWorkerCount(urls_len) == Min(cfg.album_workers, urls_len)

\* main up to join_all, for the command line held by cfg and cli_urls
Started ==
    /\ Len(cli_urls) + Concurrency(cfg) <= MaxScope
    /\ urls = Reverse(cli_urls)
    /\ running = TRUE
    /\ main = "joining"
    /\ aw = [a \in AW |->
               IF a <= AlbumWorkerCount(Len(cli_urls))
               THEN [IdleAlbumWorker EXCEPT !.pc = "loop"]
               ELSE IdleAlbumWorker]
    /\ tw = [t \in TWid |-> IdleTrackWorker]
    /\ files = [f \in {} |-> 0]
    /\ pops = [k \in {AlbumItem(i) : i \in 1..Len(cli_urls)} |-> 0]
    /\ called = {}
    /\ faults = 0

Init ==
    /\ cli_urls \in UrlLists
    /\ cfg \in Configs
    /\ Started

\* the three-track scenario: the one URL, workers of both kinds, nothing
\* skipped
InitScenario ==
    /\ cli_urls = <<ScenarioUrl>>
    /\ cfg \in {c \in Configs : /\ c.album_workers >= 1
                                 /\ c.track_workers >= 1
                                 /\ ~c.skip_tracks
                                 /\ ~c.skip_cover}
    /\ Started

(* ---- helpers ----------------------------------------------------------- *)
\* the task unwinds: its locals are dropped, the panic message remains
PanicAlbum(rec, why) ==
    [IdleAlbumWorker EXCEPT !.pc = "panicked", !.cause = why, !.idx = rec.idx,
                            !.url = rec.url, !.tracks = rec.tracks]

PanicTrack(rec, why) ==
    [IdleTrackWorker EXCEPT !.pc = "panicked", !.cause = why, !.num = rec.num]

\* a pop has returned item k
Bump(f, k) == [f EXCEPT ![k] = @ + 1]

\* the items of a new track queue are queued
Queued(f, i, queue) ==
    LET new == {TrackItem(i, queue[j].num) : j \in 1..Len(queue)}
    IN  [k \in DOMAIN f \cup new |-> IF k \in DOMAIN f THEN f[k] ELSE 0]

\* the number of times the remote service may misbehave in this run
Budget == MaxScope - Len(cli_urls) - Concurrency(cfg)

Allowed(r, good) == r \in good \/ faults < Budget
Charge(r, good) == IF r \in good THEN faults ELSE faults + 1

Ended(pc) == pc \in {"stopped", "panicked"}

\* a pop that hands out the last element and leaves it queued
MutPopped(q) == q

\* Vec::pop: the vector without its last element
Popped(q) == Front(q)

(* ---- main, the interrupt handler --------------------------------------- *)
\* the task spawned in main that waits for ctrl-c
ctrl_c ==
    /\ main = "joining"
    /\ running
    /\ running' = FALSE
    /\ UNCHANGED <<cfg, cli_urls, urls, main, aw, tw, files, pops, called, faults>>

\* join_all over the album workers, then result.unwrap() on each
main_join ==
    /\ main = "joining"
    /\ \A a \in AW : aw[a].pc = "idle" \/ Ended(aw[a].pc)
    /\ main' = IF \E a \in AW : aw[a].pc = "panicked" THEN "panicked" ELSE "finished"
    /\ UNCHANGED <<cfg, cli_urls, urls, running, aw, tw, files, pops, called, faults>>

(* ---- album worker ------------------------------------------------------ *)
\* a worker loop that never reads the flag
MutAlbumLoopRuns == TRUE

\* the condition of the worker's while loop
AlbumLoopRuns == running

\* one pass through the head of run_album_worker's loop, up to the first
\* suspension of download_album (the resolve request)
run_album_worker(a) ==
    /\ aw[a].pc = "loop"
    /\ IF AlbumLoopRuns /\ urls # <<>>
       THEN /\ urls' = Popped(urls)
            /\ pops' = Bump(pops, AlbumItem(Len(urls)))
            /\ aw' = [aw EXCEPT ![a] = [IdleAlbumWorker EXCEPT !.pc = "resolve_wait",
                                           !.idx = Len(urls), !.url = Last(urls)]]
       ELSE /\ aw' = [aw EXCEPT ![a] = [IdleAlbumWorker EXCEPT !.pc = "stopped",
                                                               !.resp = aw[a].resp]]
            /\ UNCHANGED <<urls, pops>>
    /\ UNCHANGED <<cfg, cli_urls, running, main, tw, files, called, faults>>

ResolveOutcomes == {"ok", "code", "error_page", "bad_page", "neterr"}

\* a download_album that returns after the track phase
MutAfterTracks(rec) == [rec EXCEPT !.pc = "loop"]

\* download_album after the track phase: the cover request, or the return
AfterTracks(rec) ==
    IF ~cfg.skip_cover
    THEN [rec EXCEPT !.pc = "cover_wait", !.hot = FALSE]
    ELSE [rec EXCEPT !.pc = "loop"]

\* as many track workers as configured, however short the queue
MutTrackWorkerCount(tracks_len) == cfg.track_workers

\* the number of track workers download_album spawns
TrackWorkerCount(tracks_len) == Min(cfg.track_workers, tracks_len)

\* a resolve retry that never reads the flag
MutResolveFailed(rec) == [rec EXCEPT !.pc = "resolve_sleep"]

\* a code other than 200, or a page with one of the known error phrases:
\* download_album returns if the flag is cleared, else sleeps 5 s
ResolveFailed(rec) ==
    IF ~running THEN [rec EXCEPT !.pc = "loop"] ELSE [rec EXCEPT !.pc = "resolve_sleep"]

\* the response to the resolve request: resolve_album's loop body and, on a
\* 200, download_album up to join_all / the cover request
ResolveResponse(a) ==
    /\ aw[a].pc = "resolve_wait"
    /\ \E r \in ResolveOutcomes :
         /\ Allowed(r, {"ok"})
         /\ faults' = Charge(r, {"ok"})
         /\ IF r = "ok"
            THEN LET page == PageData(aw[a].url)
                     queue == TrackQueue(page)
                     n == TrackWorkerCount(Len(queue))
                     rec == [aw[a] EXCEPT !.tracks = queue, !.resp = r, !.hot = FALSE]
                 IN  /\ pops' = Queued(pops, aw[a].idx, queue)
                     /\ IF ~cfg.skip_tracks /\ n > 0
                        THEN /\ aw' = [aw EXCEPT ![a] = [rec EXCEPT !.pc = "join", !.spawned = n]]
                             /\ tw' = [t \in TWid |->
                                         IF t[1] = a /\ t[2] <= n
                                         THEN [IdleTrackWorker EXCEPT !.pc = "loop"]
                                         ELSE tw[t]]
                        ELSE /\ aw' = [aw EXCEPT ![a] = AfterTracks(rec)]
                             /\ tw' = tw
            ELSE /\ UNCHANGED <<tw, pops>>
                 /\ aw' = [aw EXCEPT ![a] =
                             IF r \in {"bad_page", "neterr"} THEN PanicAlbum(@, r)
                             ELSE ResolveFailed([@ EXCEPT !.resp = r])]
    /\ UNCHANGED <<cfg, cli_urls, urls, running, main, files, called>>

\* a resolve retry that reads the flag once more when its sleep is over
MutAfterResolveSleep(rec) ==
    IF ~running THEN [rec EXCEPT !.pc = "loop"]
    ELSE [rec EXCEPT !.pc = "resolve_wait", !.resp = "none", !.hot = FALSE]

\* the next pass of the resolve loop: the request, with no look at the flag
AfterResolveSleep(rec) == [rec EXCEPT !.pc = "resolve_wait", !.resp = "none", !.hot = FALSE]

\* the 5 s sleep of the resolve retry is over: the request is sent again
ResolveSleepDone(a) ==
    /\ aw[a].pc = "resolve_sleep"
    /\ aw' = [aw EXCEPT ![a] = AfterResolveSleep(@)]
    /\ UNCHANGED <<cfg, cli_urls, urls, running, main, tw, files, pops, called, faults>>

\* a join that is over as soon as one track worker has ended
MutAllJoined(a) == \E w \in TW : Ended(tw[<<a, w>>].pc)

\* every JoinHandle of the album's track workers is ready
AllJoined(a) == \A w \in TW : tw[<<a, w>>].pc = "idle" \/ Ended(tw[<<a, w>>].pc)

\* join_all over the album's track workers has completed, then
\* result.unwrap() on each of them in the order of spawning
JoinTracks(a) ==
    /\ aw[a].pc = "join"
    /\ AllJoined(a)
    /\ aw' = [aw EXCEPT ![a] =
                IF \E w \in TW : tw[<<a, w>>].pc = "panicked"
                THEN PanicAlbum(@, "join")
                ELSE AfterTracks(@)]
    /\ tw' = [t \in TWid |-> IF t[1] = a THEN IdleTrackWorker ELSE tw[t]]
    /\ UNCHANGED <<cfg, cli_urls, urls, running, main, files, pops, called, faults>>

CoverFile(url) == <<url, "cover", NoNumber>>
TrackFile(url, num) == <<url, "track", num>>

\* File::create, which truncates a file that exists, in place of create_new
MutExists(name) == FALSE

\* File::create_new fails with AlreadyExists
Exists(name) == name \in DOMAIN files

\* the file system after the file is created and written
Created(fs, name, content) ==
    [f \in DOMAIN fs \cup {name} |-> IF f = name THEN content ELSE fs[f]]

CoverOutcomes == {"ok", "not_found", "code", "neterr"}

\* a 404 handled like any other code: the request is sent again
MutCoverAbsent(rec) == [rec EXCEPT !.hot = TRUE]

\* requests::download_album_cover returns None on a 404, and
\* download_album_cover returns at its let-else: download_album is over
CoverAbsent(rec) == [rec EXCEPT !.pc = "loop"]

\* the response to the cover request
CoverResponse(a) ==
    /\ aw[a].pc = "cover_wait"
    /\ \E r \in CoverOutcomes :
         LET rec == [aw[a] EXCEPT !.resp = r] IN
         /\ Allowed(r, {"ok"})
         /\ faults' = Charge(r, {"ok"})
         /\ CASE r = "ok" ->
                   IF Exists(CoverFile(rec.url))
                   THEN /\ aw' = [aw EXCEPT ![a] = PanicAlbum(rec, "exists")]
                        /\ files' = files
                   ELSE /\ aw' = [aw EXCEPT ![a] = [rec EXCEPT !.pc = "loop"]]
                        /\ files' = Created(files, CoverFile(rec.url), rec.idx)
              [] r = "not_found" ->
                   /\ aw' = [aw EXCEPT ![a] = CoverAbsent(rec)]
                   /\ files' = files
              [] r = "code" ->
                   /\ aw' = [aw EXCEPT ![a] = [rec EXCEPT !.hot = TRUE]]
                   /\ files' = files
              [] r = "neterr" ->
                   /\ aw' = [aw EXCEPT ![a] = PanicAlbum(rec, r)]
                   /\ files' = files
    /\ UNCHANGED <<cfg, cli_urls, urls, running, main, tw, pops, called>>

(* ---- track worker: the per-track protocol ------------------------------ *)
\* a capability check that tests for the wrong service
MutUnavailable(service, item) == service = "tidal" /\ ~item.producers

\* the capability check at the top of download_track
Unavailable(service, item) == service = "qobuz" /\ ~item.producers

\* a request of the track protocol goes out for the worker's track
Call(a, me, kind) == called \cup {<<aw[a].idx, me.num>>}

\* a new submit call that keeps the recorded status and its time
MutSubmit(me) ==
    [me EXCEPT !.pc = "submit_wait", !.submits = @ + 1, !.track_download = NoHandle,
               !.hot = FALSE]

\* request_track_download is entered: the submit request is sent.  Entered
\* at the top of the 'track_download loop, so the previous iteration's
\* handle and last_status are gone.
Submit(me) ==
    [me EXCEPT !.pc = "submit_wait", !.submits = @ + 1, !.track_download = NoHandle,
               !.last_status = NoStatus, !.elapsed = 0, !.hot = FALSE]

\* continue 'track_download after a stuck status
RestartStuck(me) == [Submit(me) EXCEPT !.restart = "stuck"]

\* a 500 handled like any other code: the same call is retried after 5 s
MutRestartFatal(me) ==
    [me EXCEPT !.pc = IF me.pc = "poll_wait" THEN "poll_retry_sleep" ELSE "fetch_sleep"]

\* continue 'track_download after a None from the poll or the fetch
RestartFatal(me) == [Submit(me) EXCEPT !.restart = "fatal"]

\* after a restart the handle of the previous submit call is kept
MutBoundHandle(me, returned) == IF me.restart = "none" THEN returned ELSE returned - 1

\* the handle bound by `let track_download = request_track_download(..)`
BoundHandle(me, returned) == returned

\* the status request for the handle the worker holds
Poll(me) == [me EXCEPT !.pc = "poll_wait", !.hot = FALSE]

\* the download request for the handle the worker holds
Fetch(me) == [me EXCEPT !.pc = "fetch_wait", !.hot = FALSE]

\* one pass through the head of run_track_worker's loop, up to the first
\* suspension of download_track (the submit request) or its early return
run_track_worker(a, w) ==
    LET t == <<a, w>>
        me == tw[t]
    IN  /\ me.pc = "loop"
        /\ IF aw[a].tracks = <<>>
           THEN /\ tw' = [tw EXCEPT ![t] = [IdleTrackWorker EXCEPT !.pc = "stopped"]]
                /\ UNCHANGED <<aw, pops, called>>
           ELSE LET item == Last(aw[a].tracks)
                    fresh == [IdleTrackWorker EXCEPT !.pc = "loop", !.num = item.num]
                IN  /\ aw' = [aw EXCEPT ![a].tracks = Popped(@)]
                    /\ pops' = Bump(pops, TrackItem(aw[a].idx, item.num))
                    /\ IF Unavailable(PageData(aw[a].url).original_service, item)
                       THEN /\ tw' = [tw EXCEPT ![t] = [fresh EXCEPT !.out = "skipped"]]
                            /\ called' = called
                       ELSE /\ tw' = [tw EXCEPT ![t] = Submit(fresh)]
                            /\ called' = Call(a, fresh, "submit")
        /\ UNCHANGED <<cfg, cli_urls, urls, running, main, files, faults>>

SubmitOutcomes == {"ok", "error", "bad_json", "code", "neterr"}

\* a failed submit call repeated at once
MutSubmitFailed(me) ==
    [me EXCEPT !.pc = "submit_wait", !.submits = @ + 1, !.hot = TRUE]

\* the three failure arms of request_track_download: time::sleep(5 s)
SubmitFailed(me) == [me EXCEPT !.pc = "submit_sleep"]

\* the response to the submit request: request_track_download's loop body
\* and, on a handle, download_track up to the first status request
SubmitResponse(a, w) ==
    LET t == <<a, w>>
        got(r) == [tw[t] EXCEPT !.resp = r, !.seen = NoStatus]
    IN  /\ tw[t].pc = "submit_wait"
        /\ \E r \in SubmitOutcomes :
            LET me == got(r) IN
             /\ Allowed(r, {"ok"})
             /\ faults' = Charge(r, {"ok"})
             /\ CASE r = "ok" ->
                       /\ tw' = [tw EXCEPT ![t] =
                                   Poll([me EXCEPT !.track_download = BoundHandle(me, me.submits)])]
                       /\ called' = Call(a, me, "poll")
                  [] r \in {"error", "bad_json", "code"} ->
                       /\ tw' = [tw EXCEPT ![t] = SubmitFailed([me EXCEPT !.retry = r])]
                       /\ called' = called
                  [] r = "neterr" ->
                       /\ tw' = [tw EXCEPT ![t] = PanicTrack(me, r)]
                       /\ called' = called
        /\ UNCHANGED <<cfg, cli_urls, urls, running, main, aw, files, pops>>

\* the 5 s sleep of the submit retry is over: the request is sent again
SubmitSleepDone(a, w) ==
    LET t == <<a, w>>
        me == tw[t]
    IN  /\ me.pc = "submit_sleep"
        /\ tw' = [tw EXCEPT ![t] = [me EXCEPT !.pc = "submit_wait", !.submits = @ + 1,
                                              !.delays = @ + 1, !.hot = FALSE]]
        /\ called' = Call(a, me, "submit")
        /\ UNCHANGED <<cfg, cli_urls, urls, running, main, aw, files, pops, faults>>

\* the responses of the status endpoint: a 200 with a (status, message)
\* pair, a 200 with a body that is no TrackDownloadStatus, a 500, another
\* code, or no response at all
PollOutcomes ==
    {[code |-> "200", pair |-> p] : p \in PendingPairs \cup {Completed}}
    \cup {[code |-> c, pair |-> NoStatus] : c \in {"bad_json", "fatal", "code", "neterr"}}

PollGood == {[code |-> "200", pair |-> Completed]}

\* last_status.2.elapsed() after d more seconds
Later(me, d) ==
    IF me.last_status = NoStatus THEN 0 ELSE Min(me.elapsed + d, ElapsedCap)

\* the time a response may take, where the worker measures time at all
ResponseTimes(me) == IF me.last_status = NoStatus THEN {0} ELSE Latencies

\* the pair differs from the recorded one, or none is recorded
IsNewStatus(me, pair) == me.last_status = NoStatus \/ pair # me.last_status

\* a stuck test that needs more than 30 s
MutIsStuck(elapsed) == elapsed > StuckSecs

\* the stuck test on the time since the status was recorded
IsStuck(elapsed) == elapsed >= StuckSecs

\* the end of the polling loop's body: leave for the fetch on "completed",
\* else sleep one second
AfterStatus(me, pair) ==
    IF pair[1] = "completed" THEN Fetch(me) ELSE [me EXCEPT !.pc = "poll_sleep"]

\* a status retry that tests for a stuck status before it sleeps
MutPollFailed(me) ==
    IF me.last_status # NoStatus /\ IsStuck(me.elapsed)
    THEN RestartStuck(me)
    ELSE [me EXCEPT !.pc = "poll_retry_sleep"]

\* a code other than 200 and 500 from the status request: time::sleep(5 s)
\* inside track_download_status, which does not return
PollFailed(me) == [me EXCEPT !.pc = "poll_retry_sleep"]

\* the response to a status request: track_download_status's loop body and
\* the body of download_track's polling loop
PollResponse(a, w) ==
    LET t == <<a, w>>
        me == tw[t]
    IN  /\ me.pc = "poll_wait"
        /\ \E r \in PollOutcomes, lat \in ResponseTimes(me) :
             LET now == [me EXCEPT !.elapsed = Later(me, lat), !.resp = r.code,
                                   !.seen = r.pair]
             IN  /\ Allowed(r, PollGood)
                 /\ faults' = Charge(r, PollGood)
                 /\ CASE r.code = "200" ->
                           IF IsNewStatus(now, r.pair)
                           THEN /\ tw' = [tw EXCEPT ![t] =
                                            AfterStatus([now EXCEPT !.last_status = r.pair,
                                                                    !.elapsed = 0], r.pair)]
                                /\ called' = IF r.pair[1] = "completed"
                                             THEN Call(a, me, "fetch") ELSE called
                           ELSE IF IsStuck(now.elapsed)
                           THEN /\ tw' = [tw EXCEPT ![t] = RestartStuck(now)]
                                /\ called' = Call(a, me, "submit")
                           ELSE /\ tw' = [tw EXCEPT ![t] = AfterStatus(now, r.pair)]
                                /\ called' = IF r.pair[1] = "completed"
                                             THEN Call(a, me, "fetch") ELSE called
                      [] r.code = "fatal" ->
                           /\ tw' = [tw EXCEPT ![t] = RestartFatal(now)]
                           /\ called' = Call(a, me, "submit")
                      [] r.code = "code" ->
                           /\ tw' = [tw EXCEPT ![t] = PollFailed([now EXCEPT !.retry = r.code])]
                           /\ called' = called
                      [] r.code \in {"bad_json", "neterr"} ->
                           /\ tw' = [tw EXCEPT ![t] = PanicTrack(now, r.code)]
                           /\ called' = called
        /\ UNCHANGED <<cfg, cli_urls, urls, running, main, aw, files, pops>>

\* the one-second sleep at the end of the polling loop's body is over
PollSleepDone(a, w) ==
    LET t == <<a, w>>
        me == tw[t]
    IN  /\ me.pc = "poll_sleep"
        /\ tw' = [tw EXCEPT ![t] = Poll([me EXCEPT !.elapsed = Later(me, PollSleep)])]
        /\ called' = Call(a, me, "poll")
        /\ UNCHANGED <<cfg, cli_urls, urls, running, main, aw, files, pops, faults>>

\* the 5 s sleep of the status retry is over: the request is sent again
PollRetrySleepDone(a, w) ==
    LET t == <<a, w>>
        me == tw[t]
    IN  /\ me.pc = "poll_retry_sleep"
        /\ tw' = [tw EXCEPT ![t] = Poll([me EXCEPT !.elapsed = Later(me, RetrySleep),
                                                   !.delays = @ + 1])]
        /\ called' = Call(a, me, "poll")
        /\ UNCHANGED <<cfg, cli_urls, urls, running, main, aw, files, pops, faults>>

FetchOutcomes == {"ok", "body_err", "bad_mime", "fatal", "code", "neterr"}

\* any failure of the download request handled like a 500: a new submit call
MutFetchFailed(me) == Submit(me)

\* a code other than 200 and 500 from the download request: time::sleep(5 s)
FetchFailed(me) == [me EXCEPT !.pc = "fetch_sleep"]

\* the response to the download request: requests::download_track's loop
\* body and, on the bytes, download_track to its end (the file is written)
FetchResponse(a, w) ==
    LET t == <<a, w>>
        file == TrackFile(aw[a].url, tw[t].num)
        got(r) == [tw[t] EXCEPT !.resp = r, !.seen = NoStatus]
    IN  /\ tw[t].pc = "fetch_wait"
        /\ \E r \in FetchOutcomes :
            LET me == got(r) IN
             /\ Allowed(r, {"ok"})
             /\ faults' = Charge(r, {"ok"})
             /\ CASE r = "ok" ->
                       IF Exists(file)
                       THEN /\ tw' = [tw EXCEPT ![t] = PanicTrack(me, "exists")]
                            /\ UNCHANGED <<files, called>>
                       ELSE /\ tw' = [tw EXCEPT ![t] = [me EXCEPT !.pc = "loop", !.out = "written"]]
                            /\ files' = Created(files, file, aw[a].idx)
                            /\ called' = called
                  [] r = "body_err" ->
                       /\ tw' = [tw EXCEPT ![t] = [me EXCEPT !.hot = TRUE]]
                       /\ called' = Call(a, me, "fetch")
                       /\ files' = files
                  [] r = "fatal" ->
                       /\ tw' = [tw EXCEPT ![t] = RestartFatal(me)]
                       /\ called' = Call(a, me, "submit")
                       /\ files' = files
                  [] r = "code" ->
                       /\ tw' = [tw EXCEPT ![t] = FetchFailed([me EXCEPT !.retry = r])]
                       /\ UNCHANGED <<files, called>>
                  [] r \in {"bad_mime", "neterr"} ->
                       /\ tw' = [tw EXCEPT ![t] = PanicTrack(me, r)]
                       /\ UNCHANGED <<files, called>>
        /\ UNCHANGED <<cfg, cli_urls, urls, running, main, aw, pops>>

\* the 5 s sleep of the download retry is over: the request is sent again
FetchSleepDone(a, w) ==
    LET t == <<a, w>>
        me == tw[t]
    IN  /\ me.pc = "fetch_sleep"
        /\ tw' = [tw EXCEPT ![t] = Fetch([me EXCEPT !.delays = @ + 1])]
        /\ called' = Call(a, me, "fetch")
        /\ UNCHANGED <<cfg, cli_urls, urls, running, main, aw, files, pops, faults>>

(* ---- the specification ------------------------------------------------- *)
AlbumStep(a) ==
    \/ run_album_worker(a)
    \/ ResolveResponse(a)
    \/ ResolveSleepDone(a)
    \/ JoinTracks(a)
    \/ CoverResponse(a)

TrackStep(a, w) ==
    \/ run_track_worker(a, w)
    \/ SubmitResponse(a, w)
    \/ SubmitSleepDone(a, w)
    \/ PollResponse(a, w)
    \/ PollSleepDone(a, w)
    \/ PollRetrySleepDone(a, w)
    \/ FetchResponse(a, w)
    \/ FetchSleepDone(a, w)

Next ==
    \/ ctrl_c
    \/ main_join
    \/ \E a \in AW : AlbumStep(a)
    \/ \E a \in AW, w \in TW : TrackStep(a, w)

Spec == Init /\ [][Next]_vars

SpecScenario == InitScenario /\ [][Next]_vars

(* ---- properties --------------------------------------------------------- *)
Polling == {"poll_wait", "poll_sleep", "poll_retry_sleep"}
Fetching == {"fetch_wait", "fetch_sleep"}
Submitting == {"submit_wait", "submit_sleep"}

\* the queue of URLs as main builds it, by queue position
QueuedUrl(i) == Reverse(cli_urls)[i]

\* C1: every queued Album Job and every queued (ordinal, Track) pair is
\* popped at most once, whatever the number of workers and the interleaving.
C1_PoppedAtMostOnce == \A k \in DOMAIN pops : pops[k] <= 1

\* two track workers of one album each hold a different item of its queue, and
\* the album's own URL has been popped as well
C1_Witness ==
    \E a \in AW, v \in TW, w \in TW :
        /\ v # w
        /\ tw[<<a, v>>].pc = "submit_wait"
        /\ tw[<<a, w>>].out = "skipped"
        /\ tw[<<a, v>>].num # tw[<<a, w>>].num
        /\ pops[AlbumItem(aw[a].idx)] = 1
        /\ pops[TrackItem(aw[a].idx, tw[<<a, v>>].num)] = 1
        /\ pops[TrackItem(aw[a].idx, tw[<<a, w>>].num)] = 1

\* C2: once the flag is cleared no album worker pops an Album Job: the album
\* queue is never shortened again.
C2_NoPopAfterCancel == [][~running => urls' = urls]_vars

\* an album worker has gone through the head of its loop after the flag was
\* cleared and has left the URLs that were still queued where they are
C2_Witness ==
    /\ ~running
    /\ urls # <<>>
    /\ \E a \in AW : aw[a].pc = "stopped"

\* C3: a status that has stayed at the same (status, message) pair for at
\* least 30 s when it is checked is not polled further: the handle is dropped
\* and a further submit call is made (at least the second for the track).
C3_StuckRestarts ==
    \A t \in TWid :
        /\ tw[t].pc = "poll_sleep" => tw[t].elapsed < StuckSecs
        /\ tw[t].restart = "stuck" /\ tw[t].pc \in Submitting =>
              tw[t].submits >= 2 /\ tw[t].track_download = NoHandle

\* a worker has just restarted a stuck job: the second submit call is out
C3_Witness ==
    \E t \in TWid :
        /\ tw[t].restart = "stuck"
        /\ tw[t].resp = "200"
        /\ tw[t].pc = "submit_wait"
        /\ tw[t].submits = 2

\* C4: a 500 from the poll or the fetch makes the worker send a fresh submit
\* call for the same track (at least its second) and does not end the worker.
C4_FatalResubmits ==
    [][\A t \in TWid :
          (tw[t].pc \in {"poll_wait", "fetch_wait"} /\ tw'[t] # tw[t] /\ tw'[t].resp = "fatal")
          => /\ tw'[t].pc = "submit_wait"
             /\ tw'[t].num = tw[t].num
             /\ tw'[t].submits = tw[t].submits + 1
             /\ tw'[t].submits >= 2]_vars

\* a track whose job was restarted after a 500 has been written to its file
C4_Witness ==
    \E a \in AW, w \in TW :
        /\ tw[<<a, w>>].restart = "fatal"
        /\ tw[<<a, w>>].out = "written"
        /\ tw[<<a, w>>].pc = "loop"
        /\ TrackFile(aw[a].url, tw[<<a, w>>].num) \in DOMAIN files

\* C5: for a Qobuz track without a producer list no request of the track
\* protocol is ever made and no file is written, and the worker that popped
\* it is back at the head of its loop.
C5_UnavailableSkipped ==
    /\ \A i \in 1..Len(cli_urls) :
          LET page == PageData(QueuedUrl(i))
              queue == TrackQueue(page)
          IN  \A j \in 1..Len(queue) :
                 (page.original_service = "qobuz" /\ ~queue[j].producers)
                 => /\ <<i, queue[j].num>> \notin called
                    /\ TrackFile(QueuedUrl(i), queue[j].num) \notin DOMAIN files
    /\ \A t \in TWid : tw[t].out = "skipped" => tw[t].pc = "loop" /\ tw[t].submits = 0

\* a worker has skipped an unavailable track and then taken the next one
C5_Witness ==
    \E a \in AW, w \in TW :
        /\ PageData(aw[a].url).original_service = "qobuz"
        /\ \E n \in 1..MaxTracks :
              /\ TrackItem(aw[a].idx, n) \in DOMAIN pops
              /\ pops[TrackItem(aw[a].idx, n)] = 1
              /\ <<aw[a].idx, n>> \notin called
        /\ tw[<<a, w>>].pc = "stopped"
        /\ aw[a].tracks = <<>>

\* C6: every poll and fetch call uses the handle that the most recent submit
\* call of the track returned; while a submit call is pending no handle is held.
C6_HandleFresh ==
    \A t \in TWid :
        /\ tw[t].pc \in Polling \cup Fetching => tw[t].track_download = tw[t].submits
        /\ tw[t].pc \in Submitting => tw[t].track_download = NoHandle

\* after a restart the asset is requested with the handle of the later call
C6_Witness ==
    \E t \in TWid :
        /\ tw[t].restart # "none"
        /\ tw[t].pc = "fetch_wait"
        /\ tw[t].track_download = tw[t].submits
        /\ tw[t].submits >= 2

(* ---- retries and terminations ------------------------------------------ *)
\* the conditions that are to be retried: a network error, a body that is
\* not the expected JSON
TransientCauses == {"neterr", "bad_json", "bad_page"}

\* the conditions that are to abort the process: an unsupported media type,
\* an output file that exists already
ProcessFatalCauses == {"bad_mime", "exists"}

\* the positions of a track worker between the pop of a descriptor and the
\* end of its iteration
InProgress == Submitting \cup Polling \cup Fetching

\* C7: every request that repeats a request after a transient failure is sent
\* after a sleep: no request in flight, of an album worker or of a track
\* worker, is a repetition sent straight after the failed one.
C7_DelayBeforeRetry ==
    /\ \A a \in AW : ~aw[a].hot
    /\ \A t \in TWid : ~tw[t].hot

\* C8: no transient condition, a network error or a malformed JSON body
\* included, terminates a track worker or an album worker.
C8_TransientRecovered ==
    /\ \A t \in TWid : tw[t].cause \notin TransientCauses
    /\ \A a \in AW : aw[a].cause \notin TransientCauses

\* C9: once the flag is cleared, a track worker that has popped a descriptor
\* and sent a request for it ends the iteration only with the track's file
\* written, unless a process-fatal condition aborts it.
C9_DispatchedTracksComplete ==
    [][\A t \in TWid :
          (~running /\ tw[t].pc \in InProgress /\ tw'[t].pc \notin InProgress)
          => \/ TrackFile(aw[t[1]].url, tw[t].num) \in DOMAIN files'
             \/ tw'[t].cause \in ProcessFatalCauses]_vars

\* C10: when main's join ends without the flag cleared, with at least one
\* worker of each kind and tracks not skipped, every item queued, URL or
\* track, has been popped exactly once, unless a track worker was terminated
\* or an output file existed already.
C10_AllPoppedOnce ==
    ( /\ main # "joining"
      /\ running
      /\ cfg.album_workers >= 1
      /\ cfg.track_workers >= 1
      /\ ~cfg.skip_tracks
      /\ \A a \in AW : aw[a].cause \notin {"join"} \cup ProcessFatalCauses )
    => \A k \in DOMAIN pops : pops[k] = 1

(* ---- the pools ---------------------------------------------------------- *)
\* the workers that have been spawned: a spawned task is never idle again
AlbumWorkers == {a \in AW : aw[a].pc # "idle"}
TrackWorkers(a) == {w \in TW : tw[<<a, w>>].pc # "idle"}

\* C11: the album workers spawned are min(album_workers, number of URLs), and
\* while an album's track pool runs, the track workers spawned for it are
\* min(track_workers, number of tracks queued for the album).
C11_WorkerCounts ==
    /\ Cardinality(AlbumWorkers) = Min(cfg.album_workers, Len(cli_urls))
    /\ \A a \in AW :
          aw[a].pc = "join" =>
             LET tracks_len == Len(TrackQueue(PageData(aw[a].url)))
             IN  /\ aw[a].spawned = Min(cfg.track_workers, tracks_len)
                 /\ Cardinality(TrackWorkers(a)) = aw[a].spawned

\* fewer album workers than URLs because one is configured, and fewer track
\* workers than configured because the album has two tracks
C11_Witness ==
    /\ cfg.album_workers < Len(cli_urls)
    /\ Cardinality(AlbumWorkers) = cfg.album_workers
    /\ \E a \in AW :
          /\ aw[a].pc = "join"
          /\ aw[a].spawned < cfg.track_workers
          /\ Cardinality(TrackWorkers(a)) = Len(PageData(aw[a].url).tracks)
          /\ \E w \in TW : tw[<<a, w>>].pc \in Polling

(* ---- the cover ---------------------------------------------------------- *)
\* C12: a 404 to the cover request ends the album without an error: the step
\* writes no file, the album worker is not terminated and is at the head of
\* its loop again.
C12_CoverNotFound ==
    [][\A a \in AW :
          (aw[a].pc = "cover_wait" /\ aw'[a] # aw[a] /\ aw'[a].resp = "not_found")
          => /\ aw'[a].pc = "loop"
             /\ aw'[a].cause = "none"
             /\ files' = files]_vars

\* an album whose tracks were written has ended on a 404 for its cover, and
\* its directory holds no cover
C12_Witness ==
    \E a \in AW :
        /\ aw[a].pc = "loop"
        /\ aw[a].resp = "not_found"
        /\ CoverFile(aw[a].url) \notin DOMAIN files
        /\ \E n \in 0..MaxTracks : TrackFile(aw[a].url, n) \in DOMAIN files

(* ---- the three-track scenario ------------------------------------------- *)
ScenarioFiles ==
    {TrackFile(ScenarioUrl, 1), TrackFile(ScenarioUrl, 3), CoverFile(ScenarioUrl)}

\* C13: one URL whose album has three tracks, the second without producers:
\* when main has finished and the last request of the album, the one for its
\* cover, was answered with the cover, the files are the two audio files and
\* the cover, and no request was ever sent for track 2, whatever the number
\* of track workers and the interleaving.
C13_ThreeTrackAlbum ==
    /\ <<1, 2>> \notin called
    /\ (main = "finished" /\ aw[1].resp = "ok") => DOMAIN files = ScenarioFiles

\* three track workers, no call of any kind failed or was delayed
C13_Witness ==
    /\ main = "finished"
    /\ faults = 0
    /\ cfg.track_workers = 3
    /\ TrackItem(1, 2) \in DOMAIN pops
    /\ pops[TrackItem(1, 2)] = 1
    /\ <<1, 2>> \notin called
    /\ DOMAIN files = ScenarioFiles

(* ---- the submit call that fails once ------------------------------------ *)
\* C14: in a run whose only failure is a job-error payload in answer to a
\* track's submit call: until the 5 s sleep is over one submit call has been
\* made and no retry delay has elapsed; from then on exactly two submit calls
\* have been made and exactly one retry delay has elapsed, and the track ends
\* with its file written.
C14_SubmitErrorOnce ==
    \A a \in AW, w \in TW :
        LET me == tw[<<a, w>>]
        IN  (faults = 1 /\ me.retry = "error") =>
               /\ me.pc \notin {"panicked", "stopped"}
               /\ me.pc = "submit_sleep" => me.submits = 1 /\ me.delays = 0
               /\ me.pc # "submit_sleep" => me.submits = 2 /\ me.delays = 1
               /\ me.pc = "loop" =>
                     /\ me.out = "written"
                     /\ TrackFile(aw[a].url, me.num) \in DOMAIN files

\* the track whose first submit call was answered with an error payload has
\* been written after one delay and a second submit call
C14_Witness ==
    \E a \in AW, w \in TW :
        LET me == tw[<<a, w>>]
        IN  /\ faults = 1
            /\ me.retry = "error"
            /\ me.pc = "loop"
            /\ me.out = "written"
            /\ me.submits = 2
            /\ me.delays = 1
            /\ TrackFile(aw[a].url, me.num) \in DOMAIN files

(* ---- process-fatal conditions ------------------------------------------- *)
\* a track worker has met a process-fatal condition
FatalOccurred == \E t \in TWid : tw[t].cause \in ProcessFatalCauses

\* C15: once a track worker has met a process-fatal condition (an unsupported
\* media type, an output file that exists) nothing more is popped from any
\* queue, no file is written, and no track worker moves on in the protocol or
\* to the head of its loop.
C15_FatalAbortsAtOnce ==
    [][FatalOccurred =>
          /\ pops' = pops
          /\ files' = files
          /\ \A t \in TWid :
                tw'[t] # tw[t] => tw'[t].pc \notin InProgress \cup {"loop"}]_vars

(* ---- the output files --------------------------------------------------- *)
\* C16: a file that exists is never replaced and keeps its content, and a
\* worker fails on creating a file only where a file of that name exists: the
\* step that fails writes nothing.
C16_NoOverwrite ==
    [][/\ \A f \in DOMAIN files : f \in DOMAIN files' /\ files'[f] = files[f]
       /\ \A a \in AW, w \in TW :
             (tw[<<a, w>>].cause # "exists" /\ tw'[<<a, w>>].cause = "exists")
             => TrackFile(aw[a].url, tw[<<a, w>>].num) \in DOMAIN files /\ files' = files
       /\ \A a \in AW :
             (aw[a].cause # "exists" /\ aw'[a].cause = "exists")
             => CoverFile(aw[a].url) \in DOMAIN files /\ files' = files]_vars

\* the same album was queued twice: the second download of a track has failed
\* on the file of the first, which still holds the first download
C16_Witness ==
    \E a \in AW, w \in TW :
        LET name == TrackFile(aw[a].url, tw[<<a, w>>].num)
        IN  /\ tw[<<a, w>>].cause = "exists"
            /\ name \in DOMAIN files
            /\ files[name] # aw[a].idx

(* ---- the resolve step --------------------------------------------------- *)
\* the answers to the resolve request that are retried
ResolveTransient == {"code", "error_page"}

\* C17: a resolve request answered with a code other than 200, or with a page
\* holding a known error phrase, is sent again after the 5 s sleep if the flag
\* is set when the answer is seen; if the flag is cleared then, download_album
\* returns: no track queue is built, no track worker spawned, no cover
\* requested and no file written for the album, and the worker stops.
C17_ResolveRetryOrAbort ==
    [][\A a \in AW :
          /\ (aw[a].pc = "resolve_wait" /\ aw'[a] # aw[a] /\ aw'[a].resp \in ResolveTransient)
             => /\ aw'[a].pc = IF running THEN "resolve_sleep" ELSE "loop"
                /\ aw'[a].url = aw[a].url
                /\ aw'[a].tracks = <<>>
                /\ aw'[a].spawned = 0
                /\ UNCHANGED <<tw, pops, files, called>>
          /\ (aw[a].pc = "resolve_sleep" /\ aw'[a] # aw[a])
             => aw'[a].pc = "resolve_wait" /\ aw'[a].url = aw[a].url
          /\ (aw[a].pc = "loop" /\ aw[a].resp \in ResolveTransient /\ aw'[a] # aw[a])
             => aw'[a].pc = "stopped"]_vars

\* the one album was retried once while the flag was set and given up on a
\* second failure seen after the flag was cleared: nothing exists for it
C17_Witness ==
    \E a \in AW :
        /\ Len(cli_urls) = 1
        /\ ~running
        /\ faults = 2
        /\ aw[a].pc = "loop"
        /\ aw[a].resp = "error_page"
        /\ pops[AlbumItem(aw[a].idx)] = 1
        /\ DOMAIN pops = {AlbumItem(aw[a].idx)}
        /\ DOMAIN files = {}

(* ---- the end of the process --------------------------------------------- *)
\* no album worker and no track worker is at work
Drained ==
    /\ \A a \in AW : aw[a].pc = "idle" \/ Ended(aw[a].pc)
    /\ \A t \in TWid : tw[t].pc = "idle" \/ Ended(tw[t].pc)

\* C18: with at least one album worker configured, main is past its join, and
\* the process at its end, only if the URL queue is empty and all workers have
\* ended, or the flag is cleared and all workers have ended, or a track worker
\* was terminated or an output file existed (the process-fatal conditions).
C18_FinishedOnlyWhen ==
    (main # "joining" /\ cfg.album_workers >= 1) =>
        \/ urls = <<>> /\ Drained
        \/ ~running /\ Drained
        \/ \E a \in AW : aw[a].cause \in {"join"} \cup ProcessFatalCauses

(* ---- tracks before the cover -------------------------------------------- *)
\* every track of the album in a's hands has been popped once and is written
\* or was skipped as unavailable
TracksDone(a, fs) ==
    LET page == PageData(aw[a].url)
        queue == TrackQueue(page)
    IN  \A j \in 1..Len(queue) :
           /\ pops[TrackItem(aw[a].idx, queue[j].num)] = 1
           /\ \/ Unavailable(page.original_service, queue[j])
              \/ TrackFile(aw[a].url, queue[j].num) \in DOMAIN fs

\* C19: the cover request of an album is sent only when none of its track
\* workers is at work, and, where track workers were spawned, with the track
\* queue empty and every track written or skipped; with skip_tracks no track
\* worker is ever spawned and no request of the track protocol sent; and the
\* end of the track phase, run or skipped, is followed by the cover request
\* unless skip_cover is set.
C19_CoverAfterTracks ==
    [][/\ \A a \in AW :
             /\ (aw[a].pc # "cover_wait" /\ aw'[a].pc = "cover_wait")
                => /\ \A w \in TW : tw[<<a, w>>].pc \in {"idle", "stopped"}
                   /\ \A w \in TW : tw'[<<a, w>>].pc = "idle"
                   /\ aw[a].pc = "join" => aw[a].tracks = <<>> /\ TracksDone(a, files)
             /\ (aw[a].pc \in {"resolve_wait", "join"} /\ aw'[a].pc \in {"loop", "stopped"}
                   /\ aw'[a].resp = "ok")
                => cfg.skip_cover
             /\ (aw[a].pc = "resolve_wait" /\ aw'[a].resp = "ok" /\ cfg.skip_tracks)
                => aw'[a].pc = IF cfg.skip_cover THEN "loop" ELSE "cover_wait"
       /\ cfg.skip_tracks =>
             /\ \A t \in TWid : tw'[t].pc = "idle"
             /\ called' = {}]_vars

\* both tracks of an album were handled by two track workers, which have
\* ended, and the cover request is out
C19_Witness ==
    \E a \in AW :
        /\ aw[a].pc = "cover_wait"
        /\ aw[a].spawned = 2
        /\ aw[a].tracks = <<>>
        /\ TracksDone(a, files)
        /\ \A w \in TW : tw[<<a, w>>].pc = "idle"

(* ---- re-submission ------------------------------------------------------ *)
\* the longest a response is taken to need
MaxLatency == CHOOSE d \in Latencies : \A e \in Latencies : e <= d

\* C20: a worker that holds a handle sends a submit call only on a 500 from
\* the poll or the fetch, or on a 200 from the poll whose status has stood
\* long enough to be stuck; the number of submit calls grows only there, at
\* the pop of the track and at the end of a submit retry sleep.  Any other
\* failure of the poll or the fetch leads back to the same call with the same
\* handle and the same number of submit calls.
C20_ResubmitOnlyOnRestart ==
    [][\A t \in TWid :
          /\ (tw[t].pc \in Polling \cup Fetching /\ tw'[t].pc \in Submitting)
             => \/ tw'[t].resp = "fatal" /\ tw[t].pc \in {"poll_wait", "fetch_wait"}
                \/ /\ tw'[t].resp = "200"
                   /\ tw[t].pc = "poll_wait"
                   /\ tw[t].last_status # NoStatus
                   /\ tw[t].elapsed + MaxLatency >= StuckSecs
          /\ tw'[t].submits > tw[t].submits
             => \/ tw[t].pc \in {"loop", "submit_sleep"}
                \/ tw[t].pc \in {"poll_wait", "fetch_wait"} /\ tw'[t].pc = "submit_wait"
          /\ (tw[t].pc \in {"poll_wait", "fetch_wait"} /\ tw'[t] # tw[t]
                /\ tw'[t].resp \in {"code", "body_err"})
             => /\ tw'[t].pc = CASE tw'[t].resp = "body_err" -> "fetch_wait"
                                  [] tw[t].pc = "poll_wait" -> "poll_retry_sleep"
                                  [] OTHER -> "fetch_sleep"
                /\ tw'[t].track_download = tw[t].track_download
                /\ tw'[t].submits = tw[t].submits
          /\ (tw[t].pc \in {"poll_retry_sleep", "fetch_sleep"} /\ tw'[t] # tw[t])
             => /\ tw'[t].pc = IF tw[t].pc = "fetch_sleep" THEN "fetch_wait" ELSE "poll_wait"
                /\ tw'[t].track_download = tw[t].track_download
                /\ tw'[t].submits = tw[t].submits]_vars

\* a track whose poll or download request failed with a code other than 500 was
\* written after one retry sleep, with the handle of its only submit call
C20_Witness ==
    \E t \in TWid :
        /\ tw[t].out = "written"
        /\ tw[t].retry = "code"
        /\ tw[t].resp = "ok"
        /\ tw[t].delays = 1
        /\ tw[t].submits = 1
        /\ tw[t].track_download = 1
        /\ tw[t].restart = "none"

(* ---- bounded concurrency ------------------------------------------------ *)
\* the pops a queue has seen, given its length when built and its length now
PopsSoFar(built, now) == built - now

\* the album workers with an album in their hands: between the pop of its URL
\* and the return of download_album
AlbumsInProgress ==
    {a \in AW : aw[a].pc \in {"resolve_wait", "resolve_sleep", "join", "cover_wait"}}

\* the track workers of an album worker that are at work on a track
ActiveTracks(a) == {w \in TW : tw[<<a, w>>].pc \in InProgress}

\* the bounds on the concurrency of the state described by the arguments:
\* at most album_workers albums in progress, each in the hands of a different
\* album worker and popped from a different queue position; track workers
\* only for an album worker that waits in the join of its album; at most
\* track_workers tracks of one album in the track protocol
Bounded(q, albums, tracks) ==
    LET busy == {a \in AW : albums[a].pc \in {"resolve_wait", "resolve_sleep",
                                               "join", "cover_wait"}}
    IN  /\ Cardinality(busy) <= cfg.album_workers
        /\ Cardinality(busy) <= PopsSoFar(Len(cli_urls), Len(q))
        /\ \A a \in busy, b \in busy : a # b => albums[a].idx # albums[b].idx
        /\ \A a \in AW :
              /\ Cardinality({w \in TW : tracks[<<a, w>>].pc \in InProgress})
                    <= cfg.track_workers
              /\ albums[a].pc # "join" => \A w \in TW : tracks[<<a, w>>].pc = "idle"

\* C21: the concurrency is bounded at the start and after every step, and an
\* album worker pops a URL only at the head of its loop, with no album in its
\* hands and none of its track workers left.
C21_BoundedConcurrency ==
    /\ Bounded(urls, aw, tw)
    /\ [][/\ Bounded(urls', aw', tw')
          /\ \A a \in AW :
                (aw'[a].pc = "resolve_wait" /\ aw[a].pc # "resolve_sleep" /\ aw'[a] # aw[a])
                => /\ aw[a].pc = "loop"
                   /\ a \notin AlbumsInProgress
                   /\ \A w \in TW : tw[<<a, w>>].pc = "idle"
                   /\ Len(urls') = Len(urls) - 1
          /\ Len(urls') < Len(urls)
             => \E a \in AW : aw[a].pc = "loop" /\ aw'[a].pc = "resolve_wait"]_vars

\* with two album workers and one track worker configured, two albums are in
\* progress with a third URL queued, and one track of an album is in the
\* protocol with its other track queued
C21_Witness ==
    /\ cfg.album_workers = 2
    /\ cfg.track_workers = 1
    /\ urls # <<>>
    /\ Cardinality(AlbumsInProgress) = 2
    /\ \E a \in AW :
          /\ aw[a].pc = "join"
          /\ aw[a].tracks # <<>>
          /\ Cardinality(ActiveTracks(a)) = 1

(* ---- the order of dispatch ---------------------------------------------- *)
\* C22: the k-th pop from the URL queue returns the k-th URL given, and the
\* k-th pop from the track queue of an album page returns the track with
\* ordinal k (the one pop from the queue of a single-track page returns its
\* track, which has no ordinal); with one album worker no other album is in
\* progress at a pop, and with one track worker every track of a lower
\* ordinal is written or was skipped when a track is popped.
C22_DispatchInInputOrder ==
    [][/\ \A a \in AW :
             (aw[a].pc = "loop" /\ aw'[a].pc = "resolve_wait")
             => LET k == PopsSoFar(Len(cli_urls), Len(urls)) + 1
                IN  /\ aw'[a].url = cli_urls[k]
                    /\ Len(urls') = Len(cli_urls) - k
                    /\ cfg.album_workers = 1 => AlbumsInProgress = {}
       /\ \A t \in TWid :
             (tw[t].pc = "loop" /\ tw'[t].pc # "stopped" /\ tw'[t] # tw[t])
             => LET a == t[1]
                    page == PageData(aw[a].url)
                    k == PopsSoFar(Len(page.tracks), Len(aw[a].tracks)) + 1
                IN  /\ tw'[t].num = IF page.info = "album" THEN k ELSE NoNumber
                    /\ Len(aw'[a].tracks) = Len(page.tracks) - k
                    /\ aw[a].spawned = 1 =>
                          \A j \in 1..(k - 1) :
                             \/ Unavailable(page.original_service,
                                            [num |-> j, producers |-> page.tracks[j]])
                             \/ TrackFile(aw[a].url, j) \in DOMAIN files]_vars

\* the one album worker has popped the second of two different URLs, with the
\* album of the first one written, and the track worker of the second album
\* has popped its second track after its first one was written
C22_Witness ==
    /\ Len(cli_urls) = 2
    /\ cli_urls[1] # cli_urls[2]
    /\ cfg.album_workers = 1
    /\ urls = <<>>
    /\ TrackFile(cli_urls[1], NoNumber) \in DOMAIN files
    /\ \E a \in AW, w \in TW :
          /\ aw[a].url = cli_urls[2]
          /\ aw[a].pc = "join"
          /\ aw[a].spawned = 1
          /\ tw[<<a, w>>].num = 2
          /\ TrackFile(aw[a].url, 1) \in DOMAIN files

(* ---- when the stuck test is made ---------------------------------------- *)
\* C23: a worker leaves the polling of a handle for a new submit call only on
\* a 500, or on a 200 whose (status, message) pair is the recorded one; it
\* leaves the polling at all only on a 200, on a 500, or terminated on no
\* response or an unreadable body.  A code other than 200 and 500 leaves the
\* handle, the number of submit calls and the recorded status as they are and
\* is followed by the retry sleep and the same request, however long the
\* recorded status has stood.
C23_StuckOnlyAfterSamePair ==
    [][\A t \in TWid :
          /\ (tw[t].pc \in Polling /\ tw'[t].pc \in Submitting)
             => /\ tw[t].pc = "poll_wait"
                /\ \/ tw'[t].resp = "fatal"
                   \/ /\ tw'[t].resp = "200"
                      /\ tw'[t].seen # NoStatus
                      /\ tw'[t].seen = tw[t].last_status
          /\ (tw[t].pc \in Polling /\ tw'[t].pc \notin Polling)
             => \/ tw'[t].resp \in {"200", "fatal"}
                \/ tw'[t].pc = "panicked" /\ tw'[t].cause \in {"neterr", "bad_json"}
          /\ (tw[t].pc = "poll_wait" /\ tw'[t] # tw[t] /\ tw'[t].resp = "code")
             => /\ tw'[t].pc = "poll_retry_sleep"
                /\ tw'[t].last_status = tw[t].last_status
                /\ tw'[t].track_download = tw[t].track_download
                /\ tw'[t].submits = tw[t].submits
          /\ (tw[t].pc = "poll_retry_sleep" /\ tw'[t] # tw[t])
             => /\ tw'[t].pc = "poll_wait"
                /\ tw'[t].last_status = tw[t].last_status
                /\ tw'[t].track_download = tw[t].track_download
                /\ tw'[t].submits = tw[t].submits]_vars

\* a status request was answered with a code other than 200 and 500 when the
\* recorded status had stood for the stuck threshold or longer, and the worker
\* sleeps before it repeats the request for the handle of its only submit call
C23_Witness ==
    \E t \in TWid :
        /\ tw[t].pc = "poll_retry_sleep"
        /\ tw[t].resp = "code"
        /\ tw[t].last_status \in PendingPairs
        /\ tw[t].elapsed >= StuckSecs
        /\ tw[t].submits = 1
        /\ tw[t].track_download = 1
        /\ tw[t].restart = "none"

(* ---- resolve requests after the flag is cleared -------------------------- *)
\* C24: with the flag cleared, an album worker sends a resolve request only
\* at the end of a retry sleep that was under way, and that request it does
\* send; it never enters a retry sleep, so no second request follows: a
\* failed attempt, by a code or an error phrase, takes it back to the head of
\* its loop, where it stops.  An attempt that succeeds is handled as with
\* the flag set: the track queue is built, the track workers are spawned, or
\* the cover requested, and the track workers go on popping; the join ends,
\* unless a track worker was terminated, with every track written or skipped,
\* and the cover step with the cover written or a 404.
C24_OneMoreResolve ==
    [][~running =>
         /\ \A a \in AW :
               /\ (aw'[a].pc = "resolve_sleep" => aw[a].pc = "resolve_sleep")
               /\ (aw[a].pc # "resolve_wait" /\ aw'[a].pc = "resolve_wait")
                  => aw[a].pc = "resolve_sleep"
               /\ (aw[a].pc = "resolve_sleep" /\ aw'[a] # aw[a])
                  => aw'[a].pc = "resolve_wait" /\ aw'[a].url = aw[a].url
               /\ (aw[a].pc = "resolve_wait" /\ aw'[a].resp \in ResolveTransient)
                  => aw'[a].pc = "loop"
               /\ (aw[a].pc = "loop" /\ aw'[a] # aw[a]) => aw'[a].pc = "stopped"
               /\ (aw[a].pc = "resolve_wait" /\ aw'[a].resp = "ok")
                  => LET queue == TrackQueue(PageData(aw[a].url))
                         n == Min(cfg.track_workers, Len(queue))
                     IN  /\ aw'[a].tracks = queue
                         /\ aw'[a].pc = IF ~cfg.skip_tracks /\ n > 0 THEN "join"
                                        ELSE IF ~cfg.skip_cover THEN "cover_wait"
                                        ELSE "loop"
                         /\ aw'[a].pc = "join"
                            => \A w \in TW : tw'[<<a, w>>].pc = "loop" <=> w <= n
               /\ (aw[a].pc = "join" /\ aw'[a].pc \notin {"join", "panicked"})
                  => aw[a].tracks = <<>> /\ TracksDone(a, files)
               /\ (aw[a].pc = "cover_wait" /\ aw'[a].pc = "loop")
                  => \/ CoverFile(aw[a].url) \in DOMAIN files'
                     \/ aw'[a].resp = "not_found"
         /\ \A t \in TWid :
               (tw[t].pc = "loop" /\ aw[t[1]].tracks # <<>>)
               => tw'[t] = tw[t] \/ Len(aw'[t[1]].tracks) = Len(aw[t[1]].tracks) - 1]_vars

\* the flag was cleared while an album worker slept between two resolve
\* attempts, with URLs still queued
C24_Witness ==
    /\ ~running
    /\ urls # <<>>
    /\ \E a \in AW :
          /\ aw[a].pc = "resolve_sleep"
          /\ aw[a].resp \in ResolveTransient

(* ---- completed is never stuck; the stuck timer is per handle ------------- *)
\* C25: a 200 from the status request with the status "completed" is followed
\* by the download request for the handle held, with no new submit call,
\* whatever the time since the status was recorded; a worker in a submit call
\* has no recorded status, the handle it binds comes with none, and the first
\* 200 from the status request of a handle records its pair and is followed
\* by the sleep or the download request, never by a new submit call.
C25_CompletedNeverStuck ==
    [][\A t \in TWid :
          /\ (tw[t].pc = "poll_wait" /\ tw'[t].resp = "200" /\ tw'[t].seen[1] = "completed")
             => /\ tw'[t].pc = "fetch_wait"
                /\ tw'[t].track_download = tw[t].track_download
                /\ tw'[t].submits = tw[t].submits
                /\ tw'[t].last_status = tw'[t].seen
          /\ tw'[t].pc \in Submitting
             => tw'[t].last_status = NoStatus /\ tw'[t].elapsed = 0
          /\ (tw[t].pc \in Submitting /\ tw'[t].pc = "poll_wait")
             => /\ tw'[t].last_status = NoStatus
                /\ tw'[t].elapsed = 0
                /\ tw'[t].track_download = tw'[t].submits
          /\ (tw[t].pc = "poll_wait" /\ tw[t].last_status = NoStatus /\ tw'[t].resp = "200")
             => /\ tw'[t].pc \in {"poll_sleep", "fetch_wait"}
                /\ tw'[t].last_status = tw'[t].seen
                /\ tw'[t].elapsed = 0
                /\ tw'[t].submits = tw[t].submits]_vars

\* after a restart on a stuck status the status request of the second handle
\* was answered with "completed", and the download request for that handle
\* is out
C25_Witness ==
    \E t \in TWid :
        /\ tw[t].pc = "fetch_wait"
        /\ tw[t].restart = "stuck"
        /\ tw[t].submits = 2
        /\ tw[t].track_download = 2
        /\ tw[t].resp = "200"
        /\ tw[t].seen = Completed
        /\ tw[t].last_status = Completed

====
